---- MODULE Spec2Model ----
(***************************************************************************)
(* A model of quixstreams/state/base/transaction.py: PartitionTransaction, *)
(* a staging buffer (update cache) over one persistent store partition,    *)
(* with an optional changelog producer and a lifecycle status.             *)
(*                                                                         *)
(* Bytes are sequences of byte values (0..255).  The two sentinels of      *)
(* quixstreams.state.metadata, DELETED and UNDEFINED, are distinct objects *)
(* that are no byte strings; they are modelled as one-element sequences of *)
(* a negative number, which no byte string is.  None is -1 where an        *)
(* Optional[int] is expected and <<-1>> where Optional[bytes] is.          *)
(***************************************************************************)
EXTENDS Integers, Sequences, FiniteSets, TLC

VARIABLES
    status,             \* tx -> PartitionTransactionStatus (self._status)
    update_cache,       \* tx -> the nested, insertion-ordered update cache
    changelog_producer, \* tx -> TRUE when a ChangelogProducer is attached
    partition,          \* the StorePartition: data and the two recorded offsets
    changelog,          \* the changelog topic partition: the records produced
    lastOp,             \* history: the last call, its arguments and its outcome
    writes,             \* history: tx -> number of StorePartition.write calls
    snapshot,           \* history: tx -> the store's data when tx was constructed
    flushed,            \* history: tx -> TRUE once flush was called on tx
    written             \* history: tx -> <<key, prefix, cf>> -> the last
                        \* successful set ("set", value) or delete of it

vars == <<status, update_cache, changelog_producer, partition, changelog,
          lastOp, writes, snapshot, flushed, written>>

----------------------------------------------------------------------------
(* Bounds and input domains *)

\* The most (cf, prefix, key) entries a transaction buffers in the model.
MaxCache == 2

Txs == {1}

Keys == {"a", "b"}
Values == {"1", "2"}
\* An object the codec's dumps cannot encode.
Unserializable == "obj"
\* The <<key, prefix, cf_name>> arguments of the calls: two keys of one
\* prefix, two prefixes of one column family, two column families; and a
\* key that cannot be serialized.
Triples == << <<"a", << >>, "default">>, <<"b", << >>, "default">>,
             <<"a", <<112>>, "default">>, <<"a", << >>, "cf1">> >>
KeyArgs == Triples \o << <<Unserializable, << >>, "default">> >>
\* The value arguments of set: the values and one that cannot be serialized.
ValueArgs == <<"1", "2", Unserializable>>
\* The default handed to get by the caller.
D == "D"
ProcessedOffsets == {10}

----------------------------------------------------------------------------
(* Constants of the program *)

STARTED == "STARTED"
PREPARED == "PREPARED"
COMPLETE == "COMPLETE"
FAILED == "FAILED"

None == -1
DELETED == << -2 >>
UNDEFINED == << -3 >>
\* The None value of a produced record (value=None of produce)
NoneValue == << -1 >>
PREFIX_SEPARATOR == <<124>>
CHANGELOG_CF_MESSAGE_HEADER == "__column_family__"
CHANGELOG_PROCESSED_OFFSET_MESSAGE_HEADER == "__processed_tp_offset__"

\* The errors a call can raise; NoError is a call that returns.
NoError == "NoError"
StateTransactionError == "StateTransactionError"
StateSerializationError == "StateSerializationError"
InvalidChangelogOffset == "InvalidChangelogOffset"
ProducerError == "ProducerError"
StoreError == "StoreError"

----------------------------------------------------------------------------
(* The codec: dumps and loads, as tables over the domain objects *)

CanDump(x) == x \in Keys \cup Values

dumps(x) ==
    CASE x = "a" -> <<97>>
      [] x = "b" -> <<98>>
      [] x = "1" -> <<49>>
      [] x = "2" -> <<50>>

CanLoad(b) == b = <<97>> \/ b = <<98>> \/ b = <<49>> \/ b = <<50>>

loads(b) ==
    CASE b = <<97>> -> "a"
      [] b = <<98>> -> "b"
      [] b = <<49>> -> "1"
      [] b = <<50>> -> "2"

json_dumps(n) == ToString(n)

\* PartitionTransaction._serialize_key, for a key dumps accepts
_serialize_key(key, prefix) ==
    LET key_bytes == dumps(key)
        p == IF prefix # << >> THEN prefix \o PREFIX_SEPARATOR ELSE << >>
    IN  p \o key_bytes

----------------------------------------------------------------------------
(* The update cache: cf -> prefix -> serialized key -> value, three nested  *)
(* dicts, each in insertion order.  A dict is a sequence of entries.        *)

CfPos(cache, cf) ==
    IF \E i \in 1..Len(cache) : cache[i].cf = cf
    THEN CHOOSE i \in 1..Len(cache) : cache[i].cf = cf
    ELSE 0

PrefixPos(buckets, prefix) ==
    IF \E i \in 1..Len(buckets) : buckets[i].prefix = prefix
    THEN CHOOSE i \in 1..Len(buckets) : buckets[i].prefix = prefix
    ELSE 0

KeyPos(items, key) ==
    IF \E i \in 1..Len(items) : items[i].key = key
    THEN CHOOSE i \in 1..Len(items) : items[i].key = key
    ELSE 0

\* self._update_cache.get(cf_name, {}).get(prefix, {}).get(key, UNDEFINED)
CacheLookup(cache, cf, prefix, key) ==
    LET c == CfPos(cache, cf) IN
    IF c = 0 THEN UNDEFINED ELSE
    LET p == PrefixPos(cache[c].buckets, prefix) IN
    IF p = 0 THEN UNDEFINED ELSE
    LET k == KeyPos(cache[c].buckets[p].items, key) IN
    IF k = 0 THEN UNDEFINED ELSE cache[c].buckets[p].items[k].value

\* Mutant: an assignment always adds an entry, also for a key already held.
ItemsPut_appends(items, key, value) ==
    Append(items, [key |-> key, value |-> value])

\* Mutant: a key already in the dict keeps its first value.
ItemsPut_keeps_first(items, key, value) ==
    LET k == KeyPos(items, key) IN
    IF k = 0 THEN Append(items, [key |-> key, value |-> value])
    ELSE items

\* dict[key] = value: an existing key keeps its place
ItemsPut(items, key, value) ==
    LET k == KeyPos(items, key) IN
    IF k = 0 THEN Append(items, [key |-> key, value |-> value])
    ELSE [items EXCEPT ![k].value = value]

BucketsPut(buckets, prefix, key, value) ==
    LET p == PrefixPos(buckets, prefix) IN
    IF p = 0
    THEN Append(buckets, [prefix |-> prefix,
                          items |-> ItemsPut(<< >>, key, value)])
    ELSE [buckets EXCEPT ![p].items = ItemsPut(@, key, value)]

\* self._update_cache.setdefault(cf_name, {}).setdefault(prefix, {})[key] = value
CachePut(cache, cf, prefix, key, value) ==
    LET c == CfPos(cache, cf) IN
    IF c = 0
    THEN Append(cache, [cf |-> cf,
                        buckets |-> BucketsPut(<< >>, prefix, key, value)])
    ELSE [cache EXCEPT ![c].buckets = BucketsPut(@, prefix, key, value)]

RECURSIVE BucketsFlat(_, _)
BucketsFlat(cf, buckets) ==
    IF buckets = << >> THEN << >>
    ELSE [i \in 1..Len(Head(buckets).items) |->
             [cf |-> cf, prefix |-> Head(buckets).prefix,
              key |-> Head(buckets).items[i].key,
              value |-> Head(buckets).items[i].value]]
         \o BucketsFlat(cf, Tail(buckets))

\* The entries of the cache in the order the three nested loops of _prepare
\* (and of the store's write) visit them.
RECURSIVE CacheItems(_)
CacheItems(cache) ==
    IF cache = << >> THEN << >>
    ELSE BucketsFlat(Head(cache).cf, Head(cache).buckets)
         \o CacheItems(Tail(cache))

CacheSize(cache) == Len(CacheItems(cache))

----------------------------------------------------------------------------
(* The StorePartition: a byte-oriented key-value store per column family    *)
(* with the two recorded offsets.  data is a function from <<cf, key>>.     *)

\* StorePartition.get(key, default, cf_name)
PartitionGet(part, key, default, cf) ==
    IF <<cf, key>> \in DOMAIN part.data THEN part.data[<<cf, key>>] ELSE default

\* StorePartition.exists(key, cf_name)
PartitionExists(part, key, cf) == <<cf, key>> \in DOMAIN part.data

\* StorePartition.get_changelog_offset()
get_changelog_offset(part) == part.changelog_offset

RECURSIVE ApplyBatch(_, _)
ApplyBatch(data, items) ==
    IF items = << >> THEN data
    ELSE LET it == Head(items)
             k == <<it.cf, it.key>>
             next == IF it.value = DELETED
                     THEN [x \in DOMAIN data \ {k} |-> data[x]]
                     ELSE (k :> it.value) @@ data
         IN  ApplyBatch(next, Tail(items))

\* StorePartition.write(data, processed_offset, changelog_offset): one atomic
\* batch; an offset that is None is not recorded.
PartitionWrite(part, cache, processed_offset, changelog_offset) ==
    [data |-> ApplyBatch(part.data, CacheItems(cache)),
     processed_offset |-> IF processed_offset # None THEN processed_offset
                          ELSE part.processed_offset,
     changelog_offset |-> IF changelog_offset # None THEN changelog_offset
                          ELSE part.changelog_offset]

EmptyPartition ==
    [data |-> << >>, processed_offset |-> None, changelog_offset |-> None]

\* A partition earlier transactions flushed to; one value is not decodable
\* by this transaction's codec.
UsedPartition ==
    [data |-> (<<"default", <<97>>>> :> <<49>>)
              @@ (<<"default", <<112, 124, 97>>>> :> <<50>>)
              @@ (<<"cf1", <<97>>>> :> <<255>>),
     processed_offset |-> 9, changelog_offset |-> 4]

InitPartitions == {EmptyPartition, UsedPartition}

----------------------------------------------------------------------------
(* The record of a call *)

Call(op, t) ==
    [op |-> op, tx |-> t, key |-> "", prefix |-> << >>, cf |-> "",
     value |-> "", poff |-> None, coff |-> None,
     exc |-> FALSE, ret |-> "None", raised |-> NoError, read |-> FALSE,
     wrote |-> FALSE]

\* Mutant: the wrapper also lets a PREPARED transaction through.
validate_accepts_prepared(t, allowed) == status[t] \in allowed \cup {PREPARED}

\* Mutant: the wrapper also lets a FAILED transaction through.
validate_accepts_failed(t, allowed) == status[t] \in allowed \cup {FAILED}

\* Mutant: the wrapper also lets a COMPLETE transaction through.
validate_accepts_complete(t, allowed) == status[t] \in allowed \cup {COMPLETE}

\* validate_transaction_status: the wrapper's check, before the method runs
validate_transaction_status(t, allowed) == status[t] \in allowed

\* The wrapper raises without looking at the arguments.
Rejected(op, t) == [Call(op, t) EXCEPT !.raised = StateTransactionError]

----------------------------------------------------------------------------
(* get and exists *)

\* self._deserialize_value(value), as the outcome of the call returning it
Deserialized(value, read) ==
    IF CanLoad(value)
    THEN [ret |-> loads(value), raised |-> NoError, read |-> read]
    ELSE [ret |-> "None", raised |-> StateSerializationError, read |-> read]

\* The end of get, after a cache miss: the lookup in the store.
\* storeOk: the store's get returns (it does not raise).
get_stored(key_serialized, default, cf, storeOk) ==
    LET stored == PartitionGet(partition, key_serialized, UNDEFINED, cf) IN
    IF ~storeOk
    THEN [ret |-> "None", raised |-> StoreError, read |-> TRUE]
    ELSE IF stored = UNDEFINED
    THEN [ret |-> default, raised |-> NoError, read |-> TRUE]
    ELSE Deserialized(stored, TRUE)

\* Mutant: on a cache miss get reads the store's contents as they were when
\* the transaction was constructed.
get_from_snapshot(t, key, prefix, default, cf, storeOk) ==
    IF ~CanDump(key)
    THEN [ret |-> "None", raised |-> StateSerializationError, read |-> FALSE]
    ELSE
    LET key_serialized == _serialize_key(key, prefix)
        cached == CacheLookup(update_cache[t], cf, prefix, key_serialized)
        stored == PartitionGet([data |-> snapshot[t]], key_serialized,
                               UNDEFINED, cf)
    IN  IF cached = DELETED
        THEN [ret |-> default, raised |-> NoError, read |-> FALSE]
        ELSE IF cached # UNDEFINED
        THEN Deserialized(cached, FALSE)
        ELSE IF ~storeOk
        THEN [ret |-> "None", raised |-> StoreError, read |-> TRUE]
        ELSE IF stored = UNDEFINED
        THEN [ret |-> default, raised |-> NoError, read |-> TRUE]
        ELSE Deserialized(stored, TRUE)

\* Mutant: get goes to the store without looking at the update cache.
get_ignores_cache(t, key, prefix, default, cf, storeOk) ==
    IF ~CanDump(key)
    THEN [ret |-> "None", raised |-> StateSerializationError, read |-> FALSE]
    ELSE get_stored(_serialize_key(key, prefix), default, cf, storeOk)

\* Mutant: get takes DELETED for UNDEFINED and falls through to the store.
get_deleted_as_undefined(t, key, prefix, default, cf, storeOk) ==
    IF ~CanDump(key)
    THEN [ret |-> "None", raised |-> StateSerializationError, read |-> FALSE]
    ELSE
    LET key_serialized == _serialize_key(key, prefix)
        cached == CacheLookup(update_cache[t], cf, prefix, key_serialized)
    IN  IF cached \notin {DELETED, UNDEFINED}
        THEN Deserialized(cached, FALSE)
        ELSE get_stored(key_serialized, default, cf, storeOk)

\* Mutant: on a cache miss get returns the default without asking the store.
get_cache_only(t, key, prefix, default, cf, storeOk) ==
    IF ~CanDump(key)
    THEN [ret |-> "None", raised |-> StateSerializationError, read |-> FALSE]
    ELSE
    LET key_serialized == _serialize_key(key, prefix)
        cached == CacheLookup(update_cache[t], cf, prefix, key_serialized)
    IN  IF cached \in {DELETED, UNDEFINED}
        THEN [ret |-> default, raised |-> NoError, read |-> FALSE]
        ELSE Deserialized(cached, FALSE)

\* The body of PartitionTransaction.get: [ret, raised, read]
get(t, key, prefix, default, cf, storeOk) ==
    IF ~CanDump(key)
    THEN [ret |-> "None", raised |-> StateSerializationError, read |-> FALSE]
    ELSE
    LET key_serialized == _serialize_key(key, prefix)
        cached == CacheLookup(update_cache[t], cf, prefix, key_serialized)
    IN  IF cached = DELETED
        THEN [ret |-> default, raised |-> NoError, read |-> FALSE]
        ELSE IF cached # UNDEFINED
        THEN Deserialized(cached, FALSE)
        ELSE get_stored(key_serialized, default, cf, storeOk)

\* Mutant: exists asks the store about every key the cache holds no value
\* for, a deleted one included.
exists_asks_store_for_deleted(t, key, prefix, cf, storeOk) ==
    IF ~CanDump(key)
    THEN [ret |-> "None", raised |-> StateSerializationError, read |-> FALSE]
    ELSE
    LET key_serialized == _serialize_key(key, prefix)
        cached == CacheLookup(update_cache[t], cf, prefix, key_serialized)
    IN  IF cached # UNDEFINED /\ cached # DELETED
        THEN [ret |-> "True", raised |-> NoError, read |-> FALSE]
        ELSE IF ~storeOk
        THEN [ret |-> "None", raised |-> StoreError, read |-> TRUE]
        ELSE [ret |-> IF cached # DELETED
                         /\ PartitionExists(partition, key_serialized, cf)
                      THEN "True" ELSE "False",
              raised |-> NoError, read |-> TRUE]

\* The body of PartitionTransaction.exists: [ret, raised, read]
exists(t, key, prefix, cf, storeOk) ==
    IF ~CanDump(key)
    THEN [ret |-> "None", raised |-> StateSerializationError, read |-> FALSE]
    ELSE
    LET key_serialized == _serialize_key(key, prefix)
        cached == CacheLookup(update_cache[t], cf, prefix, key_serialized)
    IN  IF cached = DELETED
        THEN [ret |-> "False", raised |-> NoError, read |-> FALSE]
        ELSE IF cached # UNDEFINED
        THEN [ret |-> "True", raised |-> NoError, read |-> FALSE]
        ELSE IF ~storeOk
        THEN [ret |-> "None", raised |-> StoreError, read |-> TRUE]
        ELSE [ret |-> IF PartitionExists(partition, key_serialized, cf)
                      THEN "True" ELSE "False",
              raised |-> NoError, read |-> TRUE]

\* Mutant: a get that raises marks the transaction FAILED, as set does.
Get_fails_on_error(t) ==
    IF ~validate_transaction_status(t, {STARTED})
    THEN /\ lastOp' = Rejected("get", t)
         /\ UNCHANGED <<status, update_cache, changelog_producer, partition,
                        changelog, writes, snapshot, flushed, written>>
    ELSE \E i \in 1..Len(KeyArgs), storeOk \in BOOLEAN :
         LET a == KeyArgs[i]
             r == get(t, a[1], a[2], D, a[3], storeOk) IN
         /\ lastOp' = [Call("get", t) EXCEPT !.key = a[1], !.prefix = a[2],
                          !.cf = a[3], !.value = D, !.ret = r.ret,
                          !.raised = r.raised, !.read = r.read]
         /\ status' = IF r.raised # NoError
                      THEN [status EXCEPT ![t] = FAILED] ELSE status
         /\ UNCHANGED <<update_cache, changelog_producer, partition,
                        changelog, writes, snapshot, flushed, written>>

Get(t) ==
    /\ IF ~validate_transaction_status(t, {STARTED})
       THEN lastOp' = Rejected("get", t)
       ELSE \E i \in 1..Len(KeyArgs), storeOk \in BOOLEAN :
            LET a == KeyArgs[i]
                r == get(t, a[1], a[2], D, a[3], storeOk) IN
            lastOp' = [Call("get", t) EXCEPT !.key = a[1], !.prefix = a[2],
                          !.cf = a[3], !.value = D, !.ret = r.ret,
                          !.raised = r.raised, !.read = r.read]
    /\ UNCHANGED <<status, update_cache, changelog_producer, partition,
                   changelog, writes, snapshot, flushed, written>>

Exists(t) ==
    /\ IF ~validate_transaction_status(t, {STARTED})
       THEN lastOp' = Rejected("exists", t)
       ELSE \E i \in 1..Len(KeyArgs), storeOk \in BOOLEAN :
            LET a == KeyArgs[i]
                r == exists(t, a[1], a[2], a[3], storeOk) IN
            lastOp' = [Call("exists", t) EXCEPT !.key = a[1], !.prefix = a[2],
                          !.cf = a[3], !.ret = r.ret,
                          !.raised = r.raised, !.read = r.read]
    /\ UNCHANGED <<status, update_cache, changelog_producer, partition,
                   changelog, writes, snapshot, flushed, written>>

----------------------------------------------------------------------------
(* set and delete *)

\* Mutant: set creates the column family's and the prefix's dicts before it
\* serializes, so a failing call leaves them behind.
set_creates_dicts_first(t, key, value, prefix, cf) ==
    IF ~CanDump(key) \/ ~CanDump(value)
    THEN [cache |-> IF CfPos(update_cache[t], cf) = 0
                    THEN Append(update_cache[t],
                                [cf |-> cf,
                                 buckets |-> << [prefix |-> prefix,
                                                 items |-> << >>] >>])
                    ELSE update_cache[t],
          raised |-> StateSerializationError]
    ELSE [cache |-> CachePut(update_cache[t], cf, prefix,
                             _serialize_key(key, prefix), dumps(value)),
          raised |-> NoError]

\* The try block of PartitionTransaction.set: the cache after it, or the
\* error it raises
set(t, key, value, prefix, cf) ==
    IF ~CanDump(key) \/ ~CanDump(value)
    THEN [cache |-> update_cache[t], raised |-> StateSerializationError]
    ELSE [cache |-> CachePut(update_cache[t], cf, prefix,
                             _serialize_key(key, prefix), dumps(value)),
          raised |-> NoError]

\* The try block of PartitionTransaction.delete
delete(t, key, prefix, cf) ==
    IF ~CanDump(key)
    THEN [cache |-> update_cache[t], raised |-> StateSerializationError]
    ELSE [cache |-> CachePut(update_cache[t], cf, prefix,
                             _serialize_key(key, prefix), DELETED),
          raised |-> NoError]

\* Mutant: a set that fails to serialize re-raises and stays STARTED.
Set_keeps_status_on_error(t) ==
    IF ~validate_transaction_status(t, {STARTED})
    THEN /\ lastOp' = Rejected("set", t)
         /\ UNCHANGED <<status, update_cache, changelog_producer, partition,
                        changelog, writes, snapshot, flushed, written>>
    ELSE \E i \in 1..Len(KeyArgs), j \in 1..Len(ValueArgs) :
         LET a == KeyArgs[i]
             value == ValueArgs[j]
             r == set(t, a[1], value, a[2], a[3]) IN
         /\ CacheSize(r.cache) <= MaxCache
         /\ update_cache' = [update_cache EXCEPT ![t] = r.cache]
         /\ lastOp' = [Call("set", t) EXCEPT !.key = a[1], !.prefix = a[2],
                          !.cf = a[3], !.value = value, !.raised = r.raised]
         /\ written' = IF r.raised # NoError THEN written
                       ELSE [written EXCEPT ![t] =
                               (a :> [op |-> "set", value |-> value]) @@ @]
         /\ UNCHANGED <<status, changelog_producer, partition, changelog,
                        writes, snapshot, flushed>>

\* Mutant: a delete that fails to serialize re-raises and stays STARTED.
Delete_keeps_status_on_error(t) ==
    IF ~validate_transaction_status(t, {STARTED})
    THEN /\ lastOp' = Rejected("delete", t)
         /\ UNCHANGED <<status, update_cache, changelog_producer, partition,
                        changelog, writes, snapshot, flushed, written>>
    ELSE \E i \in 1..Len(KeyArgs) :
         LET a == KeyArgs[i]
             r == delete(t, a[1], a[2], a[3]) IN
         /\ CacheSize(r.cache) <= MaxCache
         /\ update_cache' = [update_cache EXCEPT ![t] = r.cache]
         /\ lastOp' = [Call("delete", t) EXCEPT !.key = a[1], !.prefix = a[2],
                          !.cf = a[3], !.raised = r.raised]
         /\ written' = IF r.raised # NoError THEN written
                       ELSE [written EXCEPT ![t] =
                               (a :> [op |-> "delete", value |-> ""]) @@ @]
         /\ UNCHANGED <<status, changelog_producer, partition, changelog,
                        writes, snapshot, flushed>>

\* Mutant: a successful set is written through to the store at once.
Set_writes_through(t) ==
    IF ~validate_transaction_status(t, {STARTED})
    THEN /\ lastOp' = Rejected("set", t)
         /\ UNCHANGED <<status, update_cache, changelog_producer, partition,
                        changelog, writes, snapshot, flushed, written>>
    ELSE \E i \in 1..Len(KeyArgs), j \in 1..Len(ValueArgs) :
         LET a == KeyArgs[i]
             value == ValueArgs[j]
             r == set(t, a[1], value, a[2], a[3]) IN
         /\ CacheSize(r.cache) <= MaxCache
         /\ update_cache' = [update_cache EXCEPT ![t] = r.cache]
         /\ status' = IF r.raised # NoError
                      THEN [status EXCEPT ![t] = FAILED] ELSE status
         /\ lastOp' = [Call("set", t) EXCEPT !.key = a[1], !.prefix = a[2],
                          !.cf = a[3], !.value = value, !.raised = r.raised]
         /\ written' = IF r.raised # NoError THEN written
                       ELSE [written EXCEPT ![t] = (a :> [op |-> "set", value |-> value]) @@ @]
         /\ partition' = IF r.raised # NoError THEN partition
                         ELSE PartitionWrite(partition, r.cache, None, None)
         /\ UNCHANGED <<changelog_producer, changelog, writes, snapshot,
                        flushed>>

Set(t) ==
    IF ~validate_transaction_status(t, {STARTED})
    THEN /\ lastOp' = Rejected("set", t)
         /\ UNCHANGED <<status, update_cache, changelog_producer, partition,
                        changelog, writes, snapshot, flushed, written>>
    ELSE \E i \in 1..Len(KeyArgs), j \in 1..Len(ValueArgs) :
         LET a == KeyArgs[i]
             value == ValueArgs[j]
             r == set(t, a[1], value, a[2], a[3]) IN
         /\ CacheSize(r.cache) <= MaxCache
         /\ update_cache' = [update_cache EXCEPT ![t] = r.cache]
         /\ status' = IF r.raised # NoError
                      THEN [status EXCEPT ![t] = FAILED] ELSE status
         /\ lastOp' = [Call("set", t) EXCEPT !.key = a[1], !.prefix = a[2],
                          !.cf = a[3], !.value = value, !.raised = r.raised]
         /\ written' = IF r.raised # NoError THEN written
                       ELSE [written EXCEPT ![t] = (a :> [op |-> "set", value |-> value]) @@ @]
         /\ UNCHANGED <<changelog_producer, partition, changelog, writes,
                        snapshot, flushed>>

Delete(t) ==
    IF ~validate_transaction_status(t, {STARTED})
    THEN /\ lastOp' = Rejected("delete", t)
         /\ UNCHANGED <<status, update_cache, changelog_producer, partition,
                        changelog, writes, snapshot, flushed, written>>
    ELSE \E i \in 1..Len(KeyArgs) :
         LET a == KeyArgs[i]
             r == delete(t, a[1], a[2], a[3]) IN
         /\ CacheSize(r.cache) <= MaxCache
         /\ update_cache' = [update_cache EXCEPT ![t] = r.cache]
         /\ status' = IF r.raised # NoError
                      THEN [status EXCEPT ![t] = FAILED] ELSE status
         /\ lastOp' = [Call("delete", t) EXCEPT !.key = a[1], !.prefix = a[2],
                          !.cf = a[3], !.raised = r.raised]
         /\ written' = IF r.raised # NoError THEN written
                       ELSE [written EXCEPT ![t] = (a :> [op |-> "delete", value |-> ""]) @@ @]
         /\ UNCHANGED <<changelog_producer, partition, changelog, writes,
                        snapshot, flushed>>

----------------------------------------------------------------------------
(* prepare *)

\* Mutant: every record is labelled with the default column family.
ChangelogRecord_default_cf(t, item, processed_offset) ==
    [key |-> item.key,
     value |-> IF item.value # DELETED THEN item.value ELSE NoneValue,
     headers |-> (CHANGELOG_CF_MESSAGE_HEADER :> "default")
                 @@ (CHANGELOG_PROCESSED_OFFSET_MESSAGE_HEADER
                        :> json_dumps(processed_offset)),
     by |-> t]

\* Mutant: a deleted key is produced with empty bytes, not a null value.
ChangelogRecord_deleted_as_empty(t, item, processed_offset) ==
    [key |-> item.key,
     value |-> IF item.value # DELETED THEN item.value ELSE << >>,
     headers |-> (CHANGELOG_CF_MESSAGE_HEADER :> item.cf)
                 @@ (CHANGELOG_PROCESSED_OFFSET_MESSAGE_HEADER
                        :> json_dumps(processed_offset)),
     by |-> t]

\* The record one produce call appends: key, value and the two headers
ChangelogRecord(t, item, processed_offset) ==
    [key |-> item.key,
     value |-> IF item.value # DELETED THEN item.value ELSE NoneValue,
     headers |-> (CHANGELOG_CF_MESSAGE_HEADER :> item.cf)
                 @@ (CHANGELOG_PROCESSED_OFFSET_MESSAGE_HEADER
                        :> json_dumps(processed_offset)),
     by |-> t]

NotDeleted(item) == item.value # DELETED

\* Mutant: _prepare produces no record for a deleted key.
_prepare_skips_deleted(t, processed_offset, n) ==
    IF ~changelog_producer[t]
    THEN [produced |-> << >>, raised |-> NoError]
    ELSE LET items == SelectSeq(CacheItems(update_cache[t]), NotDeleted)
             m == IF n < Len(items) THEN n ELSE Len(items)
         IN  [produced |-> [i \in 1..m |->
                               ChangelogRecord(t, items[i], processed_offset)],
              raised |-> IF n < Len(items) THEN ProducerError ELSE NoError]

\* Mutant: _prepare produces without testing for a changelog producer.
_prepare_without_producer_check(t, processed_offset, n) ==
    LET items == CacheItems(update_cache[t])
        m == IF n < Len(items) THEN n ELSE Len(items)
    IN  [produced |-> [i \in 1..m |->
                          ChangelogRecord(t, items[i], processed_offset)],
         raised |-> IF n < Len(items) THEN ProducerError ELSE NoError]

\* PartitionTransaction._prepare: the records it produces, in order.  The
\* producer accepts the first n produce calls and raises on the next one.
_prepare(t, processed_offset, n) ==
    IF ~changelog_producer[t]
    THEN [produced |-> << >>, raised |-> NoError]
    ELSE LET items == CacheItems(update_cache[t])
             m == IF n < Len(items) THEN n ELSE Len(items)
         IN  [produced |-> [i \in 1..m |->
                               ChangelogRecord(t, items[i], processed_offset)],
              raised |-> IF n < Len(items) THEN ProducerError ELSE NoError]

\* Mutant: a failing prepare re-raises without marking the transaction FAILED.
prepare_keeps_status_on_error(t, processed_offset, n) ==
    LET r == _prepare(t, processed_offset, n) IN
    [produced |-> r.produced, raised |-> r.raised,
     status |-> IF r.raised = NoError THEN PREPARED ELSE status[t]]

\* The try block of PartitionTransaction.prepare: the records produced, the
\* error re-raised and the status it leaves
prepare(t, processed_offset, n) ==
    LET r == _prepare(t, processed_offset, n) IN
    [produced |-> r.produced, raised |-> r.raised,
     status |-> IF r.raised = NoError THEN PREPARED ELSE FAILED]

\* Mutant: prepare empties the update cache once the records are produced.
Prepare_clears_cache(t) ==
    IF ~validate_transaction_status(t, {STARTED})
    THEN /\ lastOp' = Rejected("prepare", t)
         /\ UNCHANGED <<status, update_cache, changelog_producer, partition,
                        changelog, writes, snapshot, flushed, written>>
    ELSE \E processed_offset \in ProcessedOffsets, n \in 0..MaxCache :
         LET r == prepare(t, processed_offset, n) IN
         /\ changelog' = changelog \o r.produced
         /\ status' = [status EXCEPT ![t] = r.status]
         /\ lastOp' = [Call("prepare", t) EXCEPT !.poff = processed_offset,
                          !.raised = r.raised]
         /\ update_cache' = IF r.raised = NoError
                            THEN [update_cache EXCEPT ![t] = << >>]
                            ELSE update_cache
         /\ UNCHANGED <<changelog_producer, partition, writes,
                        snapshot, flushed, written>>

Prepare(t) ==
    IF ~validate_transaction_status(t, {STARTED})
    THEN /\ lastOp' = Rejected("prepare", t)
         /\ UNCHANGED <<status, update_cache, changelog_producer, partition,
                        changelog, writes, snapshot, flushed, written>>
    ELSE \E processed_offset \in ProcessedOffsets, n \in 0..MaxCache :
         LET r == prepare(t, processed_offset, n) IN
         /\ changelog' = changelog \o r.produced
         /\ status' = [status EXCEPT ![t] = r.status]
         /\ lastOp' = [Call("prepare", t) EXCEPT !.poff = processed_offset,
                          !.raised = r.raised]
         /\ UNCHANGED <<update_cache, changelog_producer, partition, writes,
                        snapshot, flushed, written>>

----------------------------------------------------------------------------
(* flush and scope exit *)

\* Mutant: _flush compares the offsets the wrong way round.
_flush_rejects_higher(t, processed_offset, changelog_offset, writeOk) ==
    IF update_cache[t] = << >>
    THEN [read |-> FALSE, wrote |-> FALSE, raised |-> NoError]
    ELSE LET current_changelog_offset == get_changelog_offset(partition) IN
         IF /\ changelog_offset # None
            /\ current_changelog_offset # None
            /\ changelog_offset > current_changelog_offset
         THEN [read |-> TRUE, wrote |-> FALSE, raised |-> InvalidChangelogOffset]
         ELSE [read |-> changelog_offset # None, wrote |-> TRUE,
               raised |-> IF writeOk THEN NoError ELSE StoreError]

\* Mutant: _flush has no early return for an empty update cache.
_flush_writes_empty(t, processed_offset, changelog_offset, writeOk) ==
    LET current_changelog_offset == get_changelog_offset(partition) IN
    IF /\ changelog_offset # None
       /\ current_changelog_offset # None
       /\ changelog_offset < current_changelog_offset
    THEN [read |-> TRUE, wrote |-> FALSE, raised |-> InvalidChangelogOffset]
    ELSE [read |-> changelog_offset # None, wrote |-> TRUE,
          raised |-> IF writeOk THEN NoError ELSE StoreError]


\* Mutant: _flush compares the changelog offsets before it tests whether the
\* update cache is empty.
_flush_checks_offset_first(t, processed_offset, changelog_offset, writeOk) ==
    LET current_changelog_offset == get_changelog_offset(partition) IN
    IF /\ changelog_offset # None
       /\ current_changelog_offset # None
       /\ changelog_offset < current_changelog_offset
    THEN [read |-> TRUE, wrote |-> FALSE, raised |-> InvalidChangelogOffset]
    ELSE IF update_cache[t] = << >>
    THEN [read |-> changelog_offset # None, wrote |-> FALSE, raised |-> NoError]
    ELSE [read |-> changelog_offset # None, wrote |-> TRUE,
          raised |-> IF writeOk THEN NoError ELSE StoreError]

\* Mutant: _flush also refuses a changelog offset equal to the recorded one.
_flush_rejects_equal(t, processed_offset, changelog_offset, writeOk) ==
    IF update_cache[t] = << >>
    THEN [read |-> FALSE, wrote |-> FALSE, raised |-> NoError]
    ELSE LET current_changelog_offset == get_changelog_offset(partition) IN
         IF /\ changelog_offset # None
            /\ current_changelog_offset # None
            /\ changelog_offset <= current_changelog_offset
         THEN [read |-> TRUE, wrote |-> FALSE, raised |-> InvalidChangelogOffset]
         ELSE [read |-> changelog_offset # None, wrote |-> TRUE,
               raised |-> IF writeOk THEN NoError ELSE StoreError]

\* Mutant: _flush writes without comparing the changelog offsets.
_flush_without_offset_check(t, processed_offset, changelog_offset, writeOk) ==
    IF update_cache[t] = << >>
    THEN [read |-> FALSE, wrote |-> FALSE, raised |-> NoError]
    ELSE [read |-> changelog_offset # None, wrote |-> TRUE,
          raised |-> IF writeOk THEN NoError ELSE StoreError]

\* PartitionTransaction._flush: whether it reads the recorded changelog
\* offset, whether it calls the store's write, and the error it raises.
\* writeOk: the store's write succeeds.
_flush(t, processed_offset, changelog_offset, writeOk) ==
    IF update_cache[t] = << >>
    THEN [read |-> FALSE, wrote |-> FALSE, raised |-> NoError]
    ELSE LET current_changelog_offset == get_changelog_offset(partition) IN
         IF /\ changelog_offset # None
            /\ current_changelog_offset # None
            /\ changelog_offset < current_changelog_offset
         THEN [read |-> TRUE, wrote |-> FALSE, raised |-> InvalidChangelogOffset]
         ELSE [read |-> changelog_offset # None, wrote |-> TRUE,
               raised |-> IF writeOk THEN NoError ELSE StoreError]

\* A flush that re-raises without marking the transaction failed
flush_keeps_status_on_error(op, t, offsets) ==
    IF ~validate_transaction_status(t, {STARTED, PREPARED})
    THEN /\ lastOp' = Rejected(op, t)
         /\ UNCHANGED <<status, update_cache, changelog_producer, partition,
                        changelog, writes, snapshot, written>>
         /\ flushed' = [flushed EXCEPT ![t] = TRUE]
    ELSE \E i \in 1..Len(offsets), writeOk \in BOOLEAN :
         LET o == offsets[i]
             r == _flush(t, o[1], o[2], writeOk) IN
         /\ partition' = IF r.wrote /\ r.raised = NoError
                         THEN PartitionWrite(partition, update_cache[t],
                                             o[1], o[2])
                         ELSE partition
         /\ writes' = IF r.wrote THEN [writes EXCEPT ![t] = @ + 1] ELSE writes
         /\ status' = [status EXCEPT ![t] = IF r.raised = NoError
                                            THEN COMPLETE ELSE @]
         /\ lastOp' = [Call(op, t) EXCEPT !.poff = o[1], !.coff = o[2],
                          !.raised = r.raised, !.read = r.read,
                          !.wrote = r.wrote]
         /\ UNCHANGED <<update_cache, changelog_producer, changelog, snapshot,
                        written>>
         /\ flushed' = [flushed EXCEPT ![t] = TRUE]

\* Mutant: flush hands the write-set to the store without the offsets.
flush_drops_offsets(op, t, offsets) ==
    IF ~validate_transaction_status(t, {STARTED, PREPARED})
    THEN /\ lastOp' = Rejected(op, t)
         /\ UNCHANGED <<status, update_cache, changelog_producer, partition,
                        changelog, writes, snapshot, written>>
         /\ flushed' = [flushed EXCEPT ![t] = TRUE]
    ELSE \E i \in 1..Len(offsets), writeOk \in BOOLEAN :
         LET processed_offset == offsets[i][1]
             changelog_offset == offsets[i][2]
             r == _flush(t, processed_offset, changelog_offset, writeOk) IN
         /\ partition' = IF r.wrote /\ r.raised = NoError
                         THEN PartitionWrite(partition, update_cache[t],
                                             None, None)
                         ELSE partition
         /\ writes' = IF r.wrote THEN [writes EXCEPT ![t] = @ + 1] ELSE writes
         /\ status' = [status EXCEPT ![t] = IF r.raised = NoError
                                            THEN COMPLETE ELSE FAILED]
         /\ lastOp' = [Call(op, t) EXCEPT !.poff = processed_offset,
                          !.coff = changelog_offset, !.raised = r.raised,
                          !.read = r.read, !.wrote = r.wrote]
         /\ UNCHANGED <<update_cache, changelog_producer, changelog, snapshot,
                        written>>
         /\ flushed' = [flushed EXCEPT ![t] = TRUE]

\* PartitionTransaction.flush, called as op with one of the given arguments
flush(op, t, offsets) ==
    IF ~validate_transaction_status(t, {STARTED, PREPARED})
    THEN /\ lastOp' = Rejected(op, t)
         /\ UNCHANGED <<status, update_cache, changelog_producer, partition,
                        changelog, writes, snapshot, written>>
         /\ flushed' = [flushed EXCEPT ![t] = TRUE]
    ELSE \E i \in 1..Len(offsets), writeOk \in BOOLEAN :
         LET processed_offset == offsets[i][1]
             changelog_offset == offsets[i][2]
             r == _flush(t, processed_offset, changelog_offset, writeOk) IN
         /\ partition' = IF r.wrote /\ r.raised = NoError
                         THEN PartitionWrite(partition, update_cache[t],
                                             processed_offset, changelog_offset)
                         ELSE partition
         /\ writes' = IF r.wrote THEN [writes EXCEPT ![t] = @ + 1] ELSE writes
         /\ status' = [status EXCEPT ![t] = IF r.raised = NoError
                                            THEN COMPLETE ELSE FAILED]
         /\ lastOp' = [Call(op, t) EXCEPT !.poff = processed_offset,
                          !.coff = changelog_offset, !.raised = r.raised,
                          !.read = r.read, !.wrote = r.wrote]
         /\ UNCHANGED <<update_cache, changelog_producer, changelog, snapshot,
                        written>>
         /\ flushed' = [flushed EXCEPT ![t] = TRUE]

\* The <<processed_offset, changelog_offset>> arguments of flush: each offset
\* given or not, the changelog offset below or above the recorded one.
FlushOffsets == << <<None, None>>, <<None, 3>>, <<None, 5>>,
                  <<10, None>>, <<10, 3>>, <<10, 5>> >>

Flush(t) ==
    flush("flush", t, FlushOffsets)

\* Mutant: a clean exit flushes without testing whether the transaction failed.
Exit_ignores_failed(t) ==
    \E exc \in BOOLEAN :
        IF ~exc
        THEN flush("__exit__", t, << <<None, None>> >>)
        ELSE /\ lastOp' = [Call("__exit__", t) EXCEPT !.exc = exc]
             /\ UNCHANGED <<status, update_cache, changelog_producer,
                            partition, changelog, writes, snapshot, flushed,
                            written>>

\* Mutant: the exit writes the buffered write-set whether or not the block
\* raised.
Exit_flushes_on_exception(t) ==
    \E exc \in BOOLEAN :
        IF ~exc /\ status[t] # FAILED
        THEN flush("__exit__", t, << <<None, None>> >>)
        ELSE LET open == status[t] \in {STARTED, PREPARED} IN
             /\ lastOp' = [Call("__exit__", t) EXCEPT !.exc = exc,
                                                      !.wrote = open]
             /\ partition' = IF open
                             THEN PartitionWrite(partition, update_cache[t],
                                                 None, None)
                             ELSE partition
             /\ status' = IF open THEN [status EXCEPT ![t] = COMPLETE]
                          ELSE status
             /\ writes' = IF open THEN [writes EXCEPT ![t] = @ + 1]
                          ELSE writes
             /\ flushed' = [flushed EXCEPT ![t] = TRUE]
             /\ UNCHANGED <<update_cache, changelog_producer, changelog,
                            snapshot, written>>

\* Mutant: the implicit flush of a clean exit is given offsets.
Exit_passes_offsets(t) ==
    \E exc \in BOOLEAN :
        IF ~exc /\ status[t] # FAILED
        THEN flush("__exit__", t, FlushOffsets)
        ELSE /\ lastOp' = [Call("__exit__", t) EXCEPT !.exc = exc]
             /\ UNCHANGED <<status, update_cache, changelog_producer,
                            partition, changelog, writes, snapshot, flushed,
                            written>>

\* Mutant: a clean exit flushes only a transaction that is still open.
Exit_skips_finished(t) ==
    \E exc \in BOOLEAN :
        IF ~exc /\ status[t] \in {STARTED, PREPARED}
        THEN flush("__exit__", t, << <<None, None>> >>)
        ELSE /\ lastOp' = [Call("__exit__", t) EXCEPT !.exc = exc]
             /\ UNCHANGED <<status, update_cache, changelog_producer,
                            partition, changelog, writes, snapshot, flushed,
                            written>>

\* PartitionTransaction.__exit__; exc: the block raised (exc_val is not None)
Exit(t) ==
    \E exc \in BOOLEAN :
        IF ~exc /\ status[t] # FAILED
        THEN flush("__exit__", t, << <<None, None>> >>)
        ELSE /\ lastOp' = [Call("__exit__", t) EXCEPT !.exc = exc]
             /\ UNCHANGED <<status, update_cache, changelog_producer,
                            partition, changelog, writes, snapshot, flushed,
                            written>>

----------------------------------------------------------------------------
(* The specification: one transaction on one partition *)

\* PartitionTransaction.__init__
Init ==
    /\ status = [t \in Txs |-> STARTED]
    /\ update_cache = [t \in Txs |-> << >>]
    /\ changelog_producer \in [Txs -> BOOLEAN]
    /\ partition \in InitPartitions
    /\ changelog = << >>
    /\ lastOp = Call("__init__", 1)
    /\ writes = [t \in Txs |-> 0]
    /\ snapshot = [t \in Txs |-> partition.data]
    /\ flushed = [t \in Txs |-> FALSE]
    /\ written = [t \in Txs |-> << >>]

Next ==
    \E t \in Txs :
        \/ Get(t)
        \/ Exists(t)
        \/ Set(t)
        \/ Delete(t)
        \/ Prepare(t)
        \/ Flush(t)
        \/ Exit(t)

Spec == Init /\ [][Next]_vars

----------------------------------------------------------------------------
(* The specification of transactions run one after another on one          *)
(* partition: every transaction has a changelog producer, the partition    *)
(* and the changelog start empty, and a transaction is used only after all *)
(* earlier ones have reached COMPLETE or FAILED.                           *)

SeqTxs == 1..2

\* The <<processed_offset, changelog_offset>> arguments of flush in these runs
SeqFlushOffsets == << <<None, None>>, <<None, 3>>, <<10, 3>>, <<10, 5>> >>

\* The transaction in use: open, and every earlier one has ended
InUse(t) ==
    /\ status[t] \in {STARTED, PREPARED}
    /\ \A u \in 1..(t - 1) : status[u] \in {COMPLETE, FAILED}

\* The call just made was given serializable arguments without prefix in the
\* default column family.
PlainArgs ==
    /\ lastOp.raised = NoError
    /\ lastOp.prefix = << >>
    /\ lastOp.cf = "default"

SeqSet(t) ==
    /\ InUse(t)
    /\ status[t] = STARTED
    /\ Set(t)
    /\ PlainArgs'

SeqDelete(t) ==
    /\ InUse(t)
    /\ status[t] = STARTED
    /\ Delete(t)
    /\ PlainArgs'

SeqPrepare(t) ==
    /\ InUse(t)
    /\ status[t] = STARTED
    /\ Prepare(t)

SeqFlush(t) ==
    /\ InUse(t)
    /\ flush("flush", t, SeqFlushOffsets)

\* PartitionTransaction.__init__ of each transaction of the run
SeqInit ==
    /\ status = [t \in SeqTxs |-> STARTED]
    /\ update_cache = [t \in SeqTxs |-> << >>]
    /\ changelog_producer = [t \in SeqTxs |-> TRUE]
    /\ partition = EmptyPartition
    /\ changelog = << >>
    /\ lastOp = Call("__init__", 1)
    /\ writes = [t \in SeqTxs |-> 0]
    /\ snapshot = [t \in SeqTxs |-> partition.data]
    /\ flushed = [t \in SeqTxs |-> FALSE]
    /\ written = [t \in SeqTxs |-> << >>]

SeqNext ==
    \E t \in SeqTxs :
        \/ SeqSet(t)
        \/ SeqDelete(t)
        \/ SeqPrepare(t)
        \/ SeqFlush(t)

SeqSpec == SeqInit /\ [][SeqNext]_vars

----------------------------------------------------------------------------
(* The specification of two transactions open on one partition at the same *)
(* time, their calls interleaved in any order.  The partition starts       *)
(* empty, no changelog producer is attached, and the calls are given       *)
(* serializable arguments.                                                 *)

ConcTxs == 1..2

ConcGet(t) ==
    /\ Get(t)
    /\ PlainArgs'

ConcExists(t) ==
    /\ Exists(t)
    /\ PlainArgs'

ConcSet(t) ==
    /\ Set(t)
    /\ PlainArgs'

ConcDelete(t) ==
    /\ Delete(t)
    /\ PlainArgs'

ConcFlush(t) ==
    /\ status[t] = STARTED
    /\ flush("flush", t, << <<None, None>> >>)

\* PartitionTransaction.__init__ of both transactions
ConcInit ==
    /\ status = [t \in ConcTxs |-> STARTED]
    /\ update_cache = [t \in ConcTxs |-> << >>]
    /\ changelog_producer = [t \in ConcTxs |-> FALSE]
    /\ partition = EmptyPartition
    /\ changelog = << >>
    /\ lastOp = Call("__init__", 1)
    /\ writes = [t \in ConcTxs |-> 0]
    /\ snapshot = [t \in ConcTxs |-> partition.data]
    /\ flushed = [t \in ConcTxs |-> FALSE]
    /\ written = [t \in ConcTxs |-> << >>]

ConcNext ==
    \E t \in ConcTxs :
        \/ ConcGet(t)
        \/ ConcExists(t)
        \/ ConcSet(t)
        \/ ConcDelete(t)
        \/ ConcFlush(t)

ConcSpec == ConcInit /\ [][ConcNext]_vars

----------------------------------------------------------------------------
(* Properties *)

KeyOps == {"get", "set", "delete", "exists"}

\* C1: in PREPARED, COMPLETE or FAILED a call of get, set, delete or exists
\* raises the invalid-transaction-state error and has no side effect: status,
\* update cache, store and changelog are unchanged and the store is not read.
C1_KeyOpsRejectedOutsideStarted ==
    [][\A t \in Txs :
          (/\ status[t] \in {PREPARED, COMPLETE, FAILED}
           /\ lastOp'.tx = t
           /\ lastOp'.op \in KeyOps)
          => /\ lastOp'.raised = StateTransactionError
             /\ ~lastOp'.read
             /\ ~lastOp'.wrote
             /\ UNCHANGED <<status, update_cache, partition, changelog,
                            writes>>]_vars

\* A set was rejected on a prepared transaction that buffers an entry.
C1_Witness ==
    /\ lastOp.op = "set"
    /\ lastOp.raised = StateTransactionError
    /\ status[lastOp.tx] = PREPARED
    /\ update_cache[lastOp.tx] # << >>

\* C2: COMPLETE and FAILED are terminal: no call of get, set, delete, exists,
\* prepare, flush or scope exit changes a status that is COMPLETE or FAILED.
C2_TerminalStatuses ==
    [][\A t \in Txs :
          status[t] \in {COMPLETE, FAILED} => status'[t] = status[t]]_vars

\* A flush was attempted on a transaction that had failed.
C2_Witness ==
    /\ lastOp.op = "flush"
    /\ lastOp.raised = StateTransactionError
    /\ status[lastOp.tx] = FAILED

\* C3: a transaction invokes the store's write at most once.
C3_AtMostOneWrite == \A t \in Txs : writes[t] <= 1

\* A second flush was attempted after the transaction's one store write.
C3_Witness ==
    /\ lastOp.op \in {"flush", "__exit__"}
    /\ lastOp.raised = StateTransactionError
    /\ writes[lastOp.tx] = 1

\* Every entry of t's update cache is in the changelog, produced by t.
AllProduced(t) ==
    LET items == CacheItems(update_cache[t]) IN
    \A i \in 1..Len(items) :
        \E j \in 1..Len(changelog) :
            /\ changelog[j].by = t
            /\ changelog[j].key = items[i].key
            /\ changelog[j].headers[CHANGELOG_CF_MESSAGE_HEADER] = items[i].cf
            /\ changelog[j].value = IF items[i].value = DELETED
                                    THEN NoneValue ELSE items[i].value

\* C4, as claimed: with a changelog producer attached, whenever flush calls
\* the store's write, every entry of the write-set has been produced to the
\* changelog by this transaction before.
C4_Original ==
    [][\A t \in Txs :
          (changelog_producer[t] /\ lastOp'.tx = t /\ lastOp'.wrote)
          => AllProduced(t)]_vars

\* C4, amended: with a changelog producer attached, whenever a flush of a
\* PREPARED transaction (one whose prepare succeeded) calls the store's
\* write, every entry of the write-set has been produced to the changelog by
\* this transaction before.
C4_ChangelogBeforeCommitWhenPrepared ==
    [][\A t \in Txs :
          (/\ changelog_producer[t]
           /\ status[t] = PREPARED
           /\ lastOp'.tx = t
           /\ lastOp'.wrote)
          => AllProduced(t)]_vars

\* A prepared transaction with a producer flushed two entries, one a delete.
C4_Witness ==
    /\ lastOp.op = "flush"
    /\ lastOp.wrote
    /\ lastOp.raised = NoError
    /\ changelog_producer[lastOp.tx]
    /\ Len(changelog) = 2
    /\ \E i \in 1..2 : changelog[i].value = NoneValue
    /\ status[lastOp.tx] = COMPLETE

\* The last call ran get or exists (the wrapper let it through) on a triple.
ReadRan ==
    /\ lastOp.op \in {"get", "exists"}
    /\ lastOp.raised # StateTransactionError
    /\ lastOp.key \in Keys

LastTriple == <<lastOp.key, lastOp.prefix, lastOp.cf>>

LastWrite == written[lastOp.tx][LastTriple]

\* C5: after set(k, v), with no later set or delete of the same triple, get(k)
\* returns v and exists(k) returns true, whatever the store holds, and
\* neither reads the store.
C5_ReadYourOwnWrites ==
    (ReadRan /\ LastTriple \in DOMAIN written[lastOp.tx] /\ LastWrite.op = "set")
    => /\ lastOp.raised = NoError
       /\ lastOp.ret = IF lastOp.op = "get" THEN LastWrite.value ELSE "True"
       /\ ~lastOp.read

\* get returned the value set in the transaction while the store holds
\* another value for the same key.
C5_Witness ==
    /\ ReadRan
    /\ lastOp.op = "get"
    /\ LastTriple \in DOMAIN written[lastOp.tx]
    /\ LastWrite.op = "set"
    /\ lastOp.ret = "2"
    /\ PartitionGet(partition, _serialize_key(lastOp.key, lastOp.prefix),
                    UNDEFINED, lastOp.cf) = dumps("1")

\* C6: after delete(k), with no later set of the same triple, get(k, D)
\* returns D and exists(k) returns false, even when the store holds a value
\* for k, and neither reads the store.
C6_DeleteShadowsStore ==
    (ReadRan /\ LastTriple \in DOMAIN written[lastOp.tx]
             /\ LastWrite.op = "delete")
    => /\ lastOp.raised = NoError
       /\ lastOp.ret = IF lastOp.op = "get" THEN D ELSE "False"
       /\ ~lastOp.read

\* get returned the default for a deleted key the store holds a value for.
C6_Witness ==
    /\ ReadRan
    /\ lastOp.op = "get"
    /\ LastTriple \in DOMAIN written[lastOp.tx]
    /\ LastWrite.op = "delete"
    /\ lastOp.ret = D
    /\ PartitionExists(partition, _serialize_key(lastOp.key, lastOp.prefix),
                       lastOp.cf)

\* What the store held for the last call's triple when the transaction began
SnapshotKey == <<lastOp.cf, _serialize_key(lastOp.key, lastOp.prefix)>>

SnapshotHolds == SnapshotKey \in DOMAIN snapshot[lastOp.tx]

\* C7: for a triple neither set nor deleted in the transaction, a get that
\* returns gives the value the store held for it when the transaction began
\* (the default when it held none) and an exists that returns tells whether
\* the store held it; such a call raises only when the store's lookup fails
\* or the stored bytes cannot be deserialized.
C7_UntouchedKeysReadTheStore ==
    (ReadRan /\ LastTriple \notin DOMAIN written[lastOp.tx])
    => /\ lastOp.raised \in {NoError, StoreError, StateSerializationError}
       /\ lastOp.raised = StateSerializationError
              => /\ lastOp.op = "get"
                 /\ SnapshotHolds
                 /\ ~CanLoad(snapshot[lastOp.tx][SnapshotKey])
       /\ (lastOp.raised = NoError /\ lastOp.op = "get")
              => lastOp.ret = IF SnapshotHolds
                              THEN loads(snapshot[lastOp.tx][SnapshotKey])
                              ELSE D
       /\ (lastOp.raised = NoError /\ lastOp.op = "exists")
              => lastOp.ret = IF SnapshotHolds THEN "True" ELSE "False"

\* After writes to other triples, get returned the stored value of a
\* prefixed key the transaction never wrote.
C7_Witness ==
    /\ ReadRan
    /\ lastOp.op = "get"
    /\ written[lastOp.tx] # << >>
    /\ LastTriple \notin DOMAIN written[lastOp.tx]
    /\ lastOp.prefix # << >>
    /\ lastOp.ret = "2"

\* The step is a call of flush on t that the wrapper lets through, with a
\* changelog offset below the one the store has recorded.
FlushBelowRecorded(t) ==
    /\ status[t] \in {STARTED, PREPARED}
    /\ lastOp'.tx = t
    /\ lastOp'.op = "flush"
    /\ lastOp'.coff # None
    /\ partition.changelog_offset # None
    /\ lastOp'.coff < partition.changelog_offset

FlushFailsInvalidOffset(t) ==
    /\ lastOp'.raised = InvalidChangelogOffset
    /\ status'[t] = FAILED
    /\ ~lastOp'.wrote
    /\ UNCHANGED <<partition, writes>>

\* C8, as claimed: in STARTED or PREPARED, on a store whose recorded changelog
\* offset is N, flush(changelog_offset=M) with M < N raises
\* InvalidChangelogOffset, moves the transaction to FAILED and leaves the
\* store unmodified.
C8_Original ==
    [][\A t \in Txs : FlushBelowRecorded(t) => FlushFailsInvalidOffset(t)]_vars

\* C8, amended: the same, for a transaction whose update cache is not empty.
C8_LowerChangelogOffsetRejected ==
    [][\A t \in Txs :
          (FlushBelowRecorded(t) /\ update_cache[t] # << >>)
          => FlushFailsInvalidOffset(t)]_vars

\* A flush with offset 3 failed on the store that has recorded offset 4.
C8_Witness ==
    /\ lastOp.op = "flush"
    /\ lastOp.coff = 3
    /\ lastOp.raised = InvalidChangelogOffset
    /\ status[lastOp.tx] = FAILED
    /\ partition = UsedPartition

\* C9: a flush (explicit, or implicit on clean scope exit) of a transaction
\* on which no set and no delete succeeded calls neither the store's write nor
\* its offset lookup, leaves the store's data and offsets unchanged and
\* completes the transaction; and the store's write is never called with an
\* empty batch.
C9_NoOffsetWithoutData ==
    [][\A t \in Txs :
          /\ (/\ status[t] \in {STARTED, PREPARED}
              /\ lastOp'.tx = t
              /\ lastOp'.op \in {"flush", "__exit__"}
              /\ ~lastOp'.exc
              /\ written[t] = << >>)
             => /\ ~lastOp'.wrote
                /\ ~lastOp'.read
                /\ lastOp'.raised = NoError
                /\ status'[t] = COMPLETE
                /\ UNCHANGED <<partition, writes>>
          /\ (lastOp'.tx = t /\ lastOp'.wrote) => update_cache[t] # << >>]_vars

\* A transaction without writes completed a flush that was given both
\* offsets, and the used store still has the offsets it had.
C9_Witness ==
    /\ lastOp.op = "flush"
    /\ lastOp.poff = 10
    /\ lastOp.coff = 3
    /\ written[lastOp.tx] = << >>
    /\ status[lastOp.tx] = COMPLETE
    /\ partition = UsedPartition

\* C10: prepare in STARTED either succeeds and leaves PREPARED, or the
\* producer raises, the transaction is FAILED and that error is re-raised;
\* prepare in PREPARED, COMPLETE or FAILED raises the invalid-state error,
\* produces no changelog record and changes no status.
C10_PrepareTransitions ==
    [][\A t \in Txs :
          (lastOp'.tx = t /\ lastOp'.op = "prepare")
          => IF status[t] = STARTED
             THEN \/ lastOp'.raised = NoError /\ status'[t] = PREPARED
                  \/ /\ lastOp'.raised = ProducerError
                     /\ status'[t] = FAILED
                     /\ changelog_producer[t]
             ELSE /\ lastOp'.raised = StateTransactionError
                  /\ UNCHANGED <<status, changelog>>]_vars

\* The producer raised after one of two records: the transaction is FAILED.
C10_Witness ==
    /\ lastOp.op = "prepare"
    /\ lastOp.raised = ProducerError
    /\ status[lastOp.tx] = FAILED
    /\ Len(changelog) = 1
    /\ CacheSize(update_cache[lastOp.tx]) = 2

----------------------------------------------------------------------------
\* C11: flush is accepted in STARTED and in PREPARED.  From either state a
\* flush that returns leaves the transaction COMPLETE (and a flush that
\* reached the store write did write), a flush in which the offset check or
\* the store write raised leaves it FAILED with that error re-raised, and no
\* flush taken in STARTED or PREPARED leaves it in STARTED or PREPARED.
C11_FlushTransitions ==
    [][\A t \in Txs :
          (/\ status[t] \in {STARTED, PREPARED}
           /\ lastOp'.tx = t
           /\ lastOp'.op = "flush")
          => /\ lastOp'.raised \in {NoError, InvalidChangelogOffset, StoreError}
             /\ (lastOp'.raised = NoError) <=> (status'[t] = COMPLETE)
             /\ (lastOp'.raised # NoError) <=> (status'[t] = FAILED)
             /\ (lastOp'.wrote /\ lastOp'.raised = NoError)
                    => partition' = PartitionWrite(partition, update_cache[t],
                                                   lastOp'.poff, lastOp'.coff)
             /\ lastOp'.raised # NoError => partition' = partition
             /\ status'[t] \notin {STARTED, PREPARED}]_vars

\* A flush of a prepared transaction with a producer whose store write raised
C11_Witness ==
    \E t \in Txs :
        /\ lastOp.tx = t
        /\ lastOp.op = "flush"
        /\ lastOp.raised = StoreError
        /\ status[t] = FAILED
        /\ changelog_producer[t]
        /\ Len(changelog) = 2
\* C12: a flush called on a transaction on which flush was already called,
\* whether that earlier flush returned or raised, raises the
\* invalid-transaction-state error, performs no store write and leaves the
\* status (and the store) unchanged.
C12_SecondFlushRejected ==
    [][\A t \in Txs :
          (/\ flushed[t]
           /\ lastOp'.tx = t
           /\ lastOp'.op = "flush")
          => /\ lastOp'.raised = StateTransactionError
             /\ ~lastOp'.wrote
             /\ UNCHANGED <<status, partition, writes, update_cache,
                            changelog>>]_vars

\* A second flush rejected after a first flush failed its offset check
C12_Witness ==
    \E t \in Txs :
        /\ flushed[t]
        /\ lastOp.tx = t
        /\ lastOp.op = "flush"
        /\ lastOp.raised = StateTransactionError
        /\ status[t] = FAILED
        /\ writes[t] = 0
        /\ CacheSize(update_cache[t]) = 2
        /\ written[t] # << >>
        /\ Cardinality(DOMAIN written[t]) = 2
\* rec is the changelog record the triple tr of transaction t is due after
\* its last successful set or delete, for a prepare given processed_offset
ExpectedRecord(rec, t, tr, processed_offset) ==
    /\ rec.key = _serialize_key(tr[1], tr[2])
    /\ rec.value = IF written[t][tr].op = "delete"
                   THEN NoneValue ELSE dumps(written[t][tr].value)
    /\ Cardinality(DOMAIN rec.headers) = 2
    /\ CHANGELOG_CF_MESSAGE_HEADER \in DOMAIN rec.headers
    /\ CHANGELOG_PROCESSED_OFFSET_MESSAGE_HEADER \in DOMAIN rec.headers
    /\ rec.headers[CHANGELOG_CF_MESSAGE_HEADER] = tr[3]
    /\ rec.headers[CHANGELOG_PROCESSED_OFFSET_MESSAGE_HEADER]
          = json_dumps(processed_offset)
    /\ rec.by = t

\* The positions of the changelog holding the record due to the triple tr
RecordsOf(t, tr, processed_offset) ==
    {i \in DOMAIN changelog :
        ExpectedRecord(changelog[i], t, tr, processed_offset)}

\* C13: with a changelog producer attached, after a prepare(processed_offset)
\* that returned, the changelog holds exactly one record per distinct
\* (cf, prefix, key) triple the transaction set or deleted and no other
\* record; the record of a triple carries its last written value, or a null
\* value when its last operation was a delete, and its two headers are the
\* triple's column family and the processed_offset given to prepare.
C13_OneRecordPerWrittenTriple ==
    \A t \in Txs :
        (/\ changelog_producer[t]
         /\ lastOp.tx = t
         /\ lastOp.op = "prepare"
         /\ lastOp.raised = NoError)
        => /\ Len(changelog) = Cardinality(DOMAIN written[t])
           /\ \A tr \in DOMAIN written[t] :
                 Cardinality(RecordsOf(t, tr, lastOp.poff)) = 1
           /\ \A i \in DOMAIN changelog :
                 \E tr \in DOMAIN written[t] :
                     ExpectedRecord(changelog[i], t, tr, lastOp.poff)

\* A prepare that produced a value record of column family cf1 and the
\* tombstone of a deleted key
C13_Witness ==
    \E t \in Txs :
        /\ changelog_producer[t]
        /\ lastOp.tx = t
        /\ lastOp.op = "prepare"
        /\ lastOp.raised = NoError
        /\ status[t] = PREPARED
        /\ Len(changelog) = 2
        /\ \E i, j \in DOMAIN changelog :
              /\ changelog[i].value = NoneValue
              /\ changelog[j].value # NoneValue
              /\ changelog[j].headers[CHANGELOG_CF_MESSAGE_HEADER] = "cf1"
\* The store holds the write-set of t: the last value of every triple whose
\* last operation was a set, and no entry for one whose last was a delete
WriteSetInStore(t, part) ==
    \A tr \in DOMAIN written[t] :
        LET k == <<tr[3], _serialize_key(tr[1], tr[2])>> IN
        IF written[t][tr].op = "delete"
        THEN k \notin DOMAIN part.data
        ELSE /\ k \in DOMAIN part.data
             /\ part.data[k] = dumps(written[t][tr].value)

\* C14: a transaction with no changelog producer attached emits no changelog
\* record in any step; its prepare in STARTED returns and changes only the
\* status, to PREPARED; and a flush after that prepare is accepted, raises
\* only when the offset check or the store write does, and otherwise leaves
\* the status COMPLETE and the write-set in the store.
C14_NoProducerPrepareOnlyChangesStatus ==
    [][\A t \in Txs :
          ~changelog_producer[t]
          => /\ changelog = << >> /\ changelog' = << >>
             /\ (/\ status[t] = STARTED
                 /\ lastOp'.tx = t
                 /\ lastOp'.op = "prepare")
                => /\ lastOp'.raised = NoError
                   /\ status'[t] = PREPARED
                   /\ UNCHANGED <<update_cache, partition, writes, written>>
             /\ (/\ status[t] = PREPARED
                 /\ lastOp'.tx = t
                 /\ lastOp'.op = "flush")
                => /\ lastOp'.raised
                         \in {NoError, InvalidChangelogOffset, StoreError}
                   /\ lastOp'.raised = InvalidChangelogOffset
                         => FlushBelowRecorded(t)
                   /\ lastOp'.raised = StoreError => lastOp'.wrote
                   /\ lastOp'.raised = NoError
                         => /\ status'[t] = COMPLETE
                            /\ WriteSetInStore(t, partition')]_vars

\* A prepare without a producer on a transaction that buffered a set and a
\* delete: PREPARED and nothing produced
C14_Witness ==
    \E t \in Txs :
        /\ ~changelog_producer[t]
        /\ lastOp.tx = t
        /\ lastOp.op = "prepare"
        /\ lastOp.raised = NoError
        /\ status[t] = PREPARED
        /\ changelog = << >>
        /\ CacheSize(update_cache[t]) = 2
        /\ \E x, y \in DOMAIN written[t] :
              written[t][x].op = "set" /\ written[t][y].op = "delete"
\* The state at the end of the sequence set(a,1), set(b,2), delete(a),
\* prepare(10), flush(10, 5) of a transaction with a producer on an empty
\* partition: the write-set is a deleted and b set to 2, the prepare has
\* produced, and the flush with those offsets has returned.
EndToEndRun(t) ==
    /\ changelog_producer[t]
    /\ DOMAIN snapshot[t] = {}
    /\ Cardinality(DOMAIN written[t]) = 2
    /\ <<"a", << >>, "default">> \in DOMAIN written[t]
    /\ <<"b", << >>, "default">> \in DOMAIN written[t]
    /\ written[t][<<"a", << >>, "default">>].op = "delete"
    /\ written[t][<<"b", << >>, "default">>].op = "set"
    /\ written[t][<<"b", << >>, "default">>].value = "2"
    /\ Len(changelog) > 0
    /\ lastOp.tx = t
    /\ lastOp.op = "flush"
    /\ lastOp.poff = 10
    /\ lastOp.coff = 5
    /\ lastOp.raised = NoError

\* rec is the record of key in the default column family, with the given
\* value and processed offset 10 in its header
DefaultRecord(rec, key, value) ==
    /\ rec.key = key
    /\ rec.value = value
    /\ Cardinality(DOMAIN rec.headers) = 2
    /\ rec.headers[CHANGELOG_CF_MESSAGE_HEADER] = "default"
    /\ rec.headers[CHANGELOG_PROCESSED_OFFSET_MESSAGE_HEADER] = "10"

\* C15: on an empty partition with a changelog producer, the sequence
\* set(a,1), set(b,2), delete(a), prepare(processed_offset=10),
\* flush(processed_offset=10, changelog_offset=5) ends with status COMPLETE,
\* the store holding only b=2 with processed offset 10 and changelog offset
\* 5 recorded, and exactly two changelog records: a null-valued record for a
\* and a value record for b, both with processed offset 10 in their header.
C15_EndToEnd ==
    \A t \in Txs :
        EndToEndRun(t)
        => /\ status[t] = COMPLETE
           /\ Cardinality(DOMAIN partition.data) = 1
           /\ <<"default", <<98>>>> \in DOMAIN partition.data
           /\ partition.data[<<"default", <<98>>>>] = <<50>>
           /\ partition.processed_offset = 10
           /\ partition.changelog_offset = 5
           /\ Len(changelog) = 2
           /\ \E i, j \in DOMAIN changelog :
                 /\ DefaultRecord(changelog[i], <<97>>, NoneValue)
                 /\ DefaultRecord(changelog[j], <<98>>, <<50>>)

\* The end of the sequence, a buffered before b: the tombstone of a is the
\* first record and the store has been written once
C15_Witness ==
    \E t \in Txs :
        /\ EndToEndRun(t)
        /\ writes[t] = 1
        /\ changelog[1].key = <<97>>
        /\ changelog[1].value = NoneValue
        /\ CacheSize(update_cache[t]) = 2
        /\ CacheItems(update_cache[t])[1].key = <<97>>
        /\ CacheItems(update_cache[t])[1].value = DELETED

\* The operations guarded by the transaction status
GuardedOps == {"get", "set", "delete", "exists", "prepare", "flush"}
MutatingOps == {"set", "delete", "prepare", "flush"}

\* C16: when serializing the key or the value raises inside set or delete on
\* a STARTED transaction, the status is FAILED when the error reaches the
\* caller; and every get, set, delete, exists, prepare and flush on a FAILED
\* transaction is rejected and leaves it FAILED.
C16_SerializationFailureAborts ==
    [][\A t \in Txs :
          /\ (/\ status[t] = STARTED
              /\ lastOp'.tx = t
              /\ lastOp'.op \in {"set", "delete"}
              /\ lastOp'.raised # NoError)
             => /\ lastOp'.raised = StateSerializationError
                /\ status'[t] = FAILED
          /\ (/\ status[t] = FAILED
              /\ lastOp'.tx = t
              /\ lastOp'.op \in GuardedOps)
             => /\ lastOp'.raised = StateTransactionError
                /\ status'[t] = FAILED
                /\ UNCHANGED <<update_cache, partition, changelog,
                               writes>>]_vars

\* A set of a serializable key with a value that cannot be serialized, on a
\* transaction that had buffered a write: FAILED
C16_Witness ==
    \E t \in Txs :
        /\ lastOp.tx = t
        /\ lastOp.op = "set"
        /\ lastOp.key # Unserializable
        /\ lastOp.value = Unserializable
        /\ lastOp.raised = StateSerializationError
        /\ status[t] = FAILED
        /\ update_cache[t] # << >>

\* C17 as stated: whenever set, delete, prepare or flush raises, for any
\* reason and from any state, the status is FAILED afterwards.
C17_Original ==
    [][\A t \in Txs :
          (/\ lastOp'.tx = t
           /\ lastOp'.op \in MutatingOps
           /\ lastOp'.raised # NoError)
          => status'[t] = FAILED]_vars

\* C17: whenever the body of set, delete, prepare or flush raises (a
\* serialization, producer, offset or store error), the status is FAILED
\* afterwards; a call rejected by the status guard raises the
\* invalid-transaction-state error and leaves the status as it was, which is
\* PREPARED or COMPLETE when the transaction has not failed before.
C17_BodyFailuresFail ==
    [][\A t \in Txs :
          (/\ lastOp'.tx = t
           /\ lastOp'.op \in MutatingOps
           /\ lastOp'.raised # NoError)
          => IF lastOp'.raised = StateTransactionError
             THEN /\ status'[t] = status[t]
                  /\ status[t] # STARTED
                  /\ lastOp'.op = "flush" => status[t] # PREPARED
             ELSE /\ status[t] \in {STARTED, PREPARED}
                  /\ status'[t] = FAILED]_vars

\* A delete of a key that cannot be serialized, on a transaction that had
\* buffered two writes: FAILED
C17_Witness ==
    \E t \in Txs :
        /\ lastOp.tx = t
        /\ lastOp.op = "delete"
        /\ lastOp.raised = StateSerializationError
        /\ status[t] = FAILED
        /\ CacheSize(update_cache[t]) = 2
\* The step is the exit of the scoped block of t; exc: the block raised
ExitStep(t, exc) ==
    /\ lastOp'.tx = t
    /\ lastOp'.op = "__exit__"
    /\ lastOp'.exc = exc

\* C18: when the scoped block exits without an exception and the
\* transaction is STARTED or PREPARED, flush is called with no offsets: a
\* non-empty write-set is handed to the store, and unless that write raises
\* the status becomes COMPLETE with the write-set in the store and the
\* recorded offsets unchanged; on a COMPLETE transaction the flush call is
\* rejected and the status stays COMPLETE.  When the transaction is FAILED
\* at the exit there is no flush call, no store write, no status change and
\* no error.
C18_CleanExitFlushes ==
    [][\A t \in Txs :
          ExitStep(t, FALSE)
          => /\ status[t] \in {STARTED, PREPARED}
                => /\ flushed'[t]
                   /\ lastOp'.poff = None /\ lastOp'.coff = None
                   /\ lastOp'.raised \in {NoError, StoreError}
                   /\ lastOp'.wrote <=> update_cache[t] # << >>
                   /\ lastOp'.raised = StoreError
                         => lastOp'.wrote /\ status'[t] = FAILED
                   /\ lastOp'.raised = NoError
                         => /\ status'[t] = COMPLETE
                            /\ WriteSetInStore(t, partition')
                            /\ partition'.processed_offset
                                  = partition.processed_offset
                            /\ partition'.changelog_offset
                                  = partition.changelog_offset
             /\ status[t] = COMPLETE
                => /\ lastOp'.raised = StateTransactionError
                   /\ UNCHANGED <<status, partition, writes>>
             /\ status[t] = FAILED
                => /\ lastOp'.raised = NoError
                   /\ ~lastOp'.wrote
                   /\ UNCHANGED <<status, partition, writes, flushed,
                                  update_cache, changelog>>]_vars

\* A clean exit of a transaction that buffered writes: the store changed and
\* the transaction is COMPLETE
C18_Witness ==
    \E t \in Txs :
        /\ lastOp.tx = t
        /\ lastOp.op = "__exit__"
        /\ ~lastOp.exc
        /\ lastOp.wrote
        /\ lastOp.raised = NoError
        /\ status[t] = COMPLETE
        /\ written[t] # << >>
        /\ partition.data # snapshot[t]

\* C19: when the scoped block exits because an exception was raised inside
\* it, the exit calls no flush: the store, the status, the update cache and
\* the changelog are unchanged by the exit, in every state of the
\* transaction, and the exit raises nothing of its own.
C19_NoFlushOnException ==
    [][\A t \in Txs :
          ExitStep(t, TRUE)
          => /\ ~lastOp'.wrote
             /\ lastOp'.raised = NoError
             /\ UNCHANGED <<partition, status, update_cache, changelog,
                            writes, flushed>>]_vars

\* An exit on an exception of a prepared transaction holding two unflushed
\* entries: still PREPARED, the store as it was
C19_Witness ==
    \E t \in Txs :
        /\ lastOp.tx = t
        /\ lastOp.op = "__exit__"
        /\ lastOp.exc
        /\ status[t] = PREPARED
        /\ CacheSize(update_cache[t]) = 2
        /\ ~flushed[t]
        /\ writes[t] = 0
        /\ partition.data = snapshot[t]
\* The <<key, prefix, cf>> arguments of the call the step records
CalledTriple == <<lastOp'.key, lastOp'.prefix, lastOp'.cf>>

\* C20: a delete of a serializable key in a STARTED transaction returns
\* whether or not the key is in the cache or the store, reads nothing from
\* the store and leaves the key deleted in the cache; and a delete of a key
\* whose last operation in the transaction was already a delete changes
\* nothing: the update cache, and with it every later get and exists, the
\* records a prepare produces and the batch a flush writes, is the same as
\* after the first delete.
C20_DeleteIdempotent ==
    [][\A t \in Txs :
          (/\ status[t] = STARTED
           /\ lastOp'.tx = t
           /\ lastOp'.op = "delete"
           /\ CanDump(lastOp'.key))
          => /\ lastOp'.raised = NoError
             /\ ~lastOp'.read
             /\ status'[t] = STARTED
             /\ CacheLookup(update_cache'[t], lastOp'.cf, lastOp'.prefix,
                            _serialize_key(lastOp'.key, lastOp'.prefix))
                   = DELETED
             /\ UNCHANGED <<partition, changelog, writes>>
             /\ (/\ CalledTriple \in DOMAIN written[t]
                 /\ written[t][CalledTriple].op = "delete")
                => /\ update_cache'[t] = update_cache[t]
                   /\ CacheItems(update_cache'[t])
                         = CacheItems(update_cache[t])
                   /\ written' = written]_vars

\* A delete of a key that is neither in the store nor set in the
\* transaction, next to another buffered entry: it returned and the key is
\* deleted in the cache
C20_Witness ==
    \E t \in Txs :
        /\ lastOp.tx = t
        /\ lastOp.op = "delete"
        /\ lastOp.raised = NoError
        /\ status[t] = STARTED
        /\ snapshot[t] = << >>
        /\ CacheSize(update_cache[t]) = 2
        /\ \A tr \in DOMAIN written[t] : written[t][tr].op = "delete"
        /\ CacheLookup(update_cache[t], lastOp.cf, lastOp.prefix,
                       _serialize_key(lastOp.key, lastOp.prefix)) = DELETED
----------------------------------------------------------------------------
(* C21..C30 *)

\* The state a changelog reader rebuilds: the records applied in order, the
\* last record of a column family and key deciding, a null value removing
\* the key.
RECURSIVE Replay(_)
Replay(log) ==
    IF log = << >> THEN << >>
    ELSE LET before == Replay(SubSeq(log, 1, Len(log) - 1))
             rec == log[Len(log)]
             k == <<rec.headers[CHANGELOG_CF_MESSAGE_HEADER], rec.key>>
         IN  IF rec.value = NoneValue
             THEN [x \in DOMAIN before \ {k} |-> before[x]]
             ELSE (k :> rec.value) @@ before

\* Transaction t produced a changelog record.
Emitted(t) == \E j \in 1..Len(changelog) : changelog[j].by = t

\* Every transaction that wrote to the store or produced records went
\* through prepare and flush to COMPLETE.
AllCommittedThroughPrepare ==
    \A t \in SeqTxs :
        /\ Emitted(t) => status[t] = COMPLETE
        /\ writes[t] > 0 => Emitted(t) /\ status[t] = COMPLETE

\* C21: from an empty store and an empty changelog, when every transaction
\* that wrote to the store or produced records ran prepare and then flush to
\* COMPLETE, replaying the changelog in order gives exactly the contents of
\* the store.
C21_ChangelogRebuildsStore ==
    AllCommittedThroughPrepare => Replay(changelog) = partition.data

\* Two transactions committed through prepare; the second one overwrote a key
\* of the first and deleted another.
C21_Witness ==
    /\ status[1] = COMPLETE /\ status[2] = COMPLETE
    /\ AllCommittedThroughPrepare
    /\ Len(changelog) = 4
    /\ changelog[3].by = 2
    /\ \E j \in 3..4 : changelog[j].value = NoneValue
    /\ DOMAIN partition.data = {<<"default", <<98>>>>}
    /\ partition.data[<<"default", <<98>>>>] = <<50>>
    /\ Replay(changelog) = partition.data
\* C22: over transactions flushed one after another against the same
\* partition, with any supplied changelog offsets, the changelog offset
\* recorded in the store never decreases from one state to the next (no
\* recorded offset counting as the lowest).
C22_ChangelogOffsetNeverDecreases ==
    [][partition'.changelog_offset >= partition.changelog_offset]_vars

\* The first transaction recorded offset 5; the second one's flush with
\* offset 3 was refused and the recorded offset is still 5.
C22_Witness ==
    /\ status[1] = COMPLETE
    /\ writes[1] = 1
    /\ lastOp.op = "flush"
    /\ lastOp.tx = 2
    /\ lastOp.coff = 3
    /\ lastOp.raised = InvalidChangelogOffset
    /\ partition.changelog_offset = 5
\* The step is a flush (a call of flush or the implicit one of a clean exit)
\* whose store write succeeded.
FlushWrote ==
    /\ lastOp'.op \in {"flush", "__exit__"}
    /\ lastOp'.wrote
    /\ lastOp'.raised = NoError
    /\ writes' # writes

\* C23: data and offsets are committed as one unit.  A step either leaves the
\* store as it was, or it is a flush with a non-empty update cache that makes
\* one write call, and the store afterwards is the store before with the
\* whole write-set, the processed offset and the changelog offset of that
\* call applied together.
C23_DataAndOffsetsInOneWrite ==
    [][IF FlushWrote
       THEN LET t == lastOp'.tx IN
            /\ update_cache[t] # << >>
            /\ writes'[t] = writes[t] + 1
            /\ partition' = PartitionWrite(partition, update_cache[t],
                                           lastOp'.poff, lastOp'.coff)
       ELSE partition' = partition]_vars

\* A flush given both offsets wrote a set and a delete over the used
\* partition: the data and both offsets changed in the same step.
C23_Witness ==
    /\ lastOp.op = "flush"
    /\ lastOp.wrote
    /\ lastOp.raised = NoError
    /\ lastOp.poff = 10
    /\ lastOp.coff = 5
    /\ partition.processed_offset = 10
    /\ partition.changelog_offset = 5
    /\ CacheSize(update_cache[lastOp.tx]) = 2
    /\ <<"default", <<97>>>> \notin DOMAIN partition.data
    /\ <<"default", <<98>>>> \in DOMAIN partition.data
    /\ <<"cf1", <<97>>>> \in DOMAIN partition.data
\* The step is a call of flush on transaction t that passed the status guard.
FlushAccepted(t) ==
    /\ status[t] \in {STARTED, PREPARED}
    /\ lastOp'.tx = t
    /\ lastOp'.op = "flush"

\* C24: a flush whose changelog offset M is not below the store's recorded
\* offset N (M = N included), or that finds no recorded offset, or that is
\* given no changelog offset, does not raise InvalidChangelogOffset, and with
\* a non-empty write-set it calls the store's write.
C24_OffsetNotBelowRecordedAccepted ==
    [][\A t \in SeqTxs :
          (FlushAccepted(t) /\ ~FlushBelowRecorded(t))
          => /\ lastOp'.raised # InvalidChangelogOffset
             /\ update_cache[t] # << >>
                => /\ lastOp'.wrote
                   /\ writes'[t] = writes[t] + 1]_vars

\* M = N: the first transaction recorded processed offset 10 and changelog
\* offset 3, and the second one's flush with changelog offset 3 and no
\* processed offset was written.
C24_Witness ==
    /\ status[1] = COMPLETE
    /\ writes[1] = 1
    /\ lastOp.op = "flush"
    /\ lastOp.tx = 2
    /\ lastOp.poff = None
    /\ lastOp.coff = 3
    /\ lastOp.wrote
    /\ lastOp.raised = NoError
    /\ status[2] = COMPLETE
    /\ partition.processed_offset = 10
    /\ partition.changelog_offset = 3
\* Entry it of an update cache is the entry of triple tr = <<key, prefix, cf>>.
EntryOf(it, tr) ==
    /\ it.cf = tr[3]
    /\ it.prefix = tr[2]
    /\ it.key = _serialize_key(tr[1], tr[2])

\* The serialized value, or the tombstone, of the most recent set or delete
\* of triple tr in transaction t
LatestValue(t, tr) ==
    IF written[t][tr].op = "delete" THEN DELETED
    ELSE dumps(written[t][tr].value)

\* C25: last write wins.  After any sets and deletes the update cache holds
\* exactly one entry for each triple touched and no other entry, with the
\* value of the most recent set, or the tombstone when the most recent call
\* was a delete; every changelog record prepare produced is such an entry, in
\* the cache's order, and after the flush that wrote the batch the store
\* holds the most recent value of every triple touched.
C25_LastWriteWins ==
    \A t \in Txs :
        LET items == CacheItems(update_cache[t]) IN
        /\ Len(items) = Cardinality(DOMAIN written[t])
        /\ \A tr \in DOMAIN written[t] :
               /\ Cardinality({i \in 1..Len(items) : EntryOf(items[i], tr)}) = 1
               /\ \A i \in 1..Len(items) :
                      EntryOf(items[i], tr) => items[i].value = LatestValue(t, tr)
        /\ Len(changelog) <= Len(items)
        /\ \A j \in 1..Len(changelog) :
               /\ changelog[j].key = items[j].key
               /\ changelog[j].headers[CHANGELOG_CF_MESSAGE_HEADER] = items[j].cf
               /\ changelog[j].value = IF items[j].value = DELETED
                                       THEN NoneValue ELSE items[j].value
        /\ (status[t] = COMPLETE /\ writes[t] = 1)
           => WriteSetInStore(t, partition)

\* The most recent call for key "a" was a delete and for key "b" a set of
\* "2": prepare produced one tombstone and one value and flush wrote them.
C25_Witness ==
    /\ status[1] = COMPLETE
    /\ writes[1] = 1
    /\ Len(changelog) = 2
    /\ changelog[1].key = <<97>>
    /\ changelog[1].value = NoneValue
    /\ changelog[2].value = <<50>>
    /\ Cardinality(DOMAIN written[1]) = 2
    /\ CacheSize(update_cache[1]) = 2
    /\ partition.data = (<<"default", <<98>>>> :> <<50>>)
\* C26: a get or exists for a triple that was set or deleted earlier in the
\* same transaction performs no lookup in the store; the store is read only
\* for a triple absent from the update cache.
C26_NoStoreReadForTouchedTriple ==
    (lastOp.op \in {"get", "exists"} /\ lastOp.read)
    => /\ LastTriple \notin DOMAIN written[lastOp.tx]
       /\ CacheLookup(update_cache[lastOp.tx], lastOp.cf, lastOp.prefix,
                      _serialize_key(lastOp.key, lastOp.prefix)) = UNDEFINED

\* exists for key "a", deleted in the transaction and present in the store,
\* answered False without a store lookup.
C26_Witness ==
    /\ lastOp.op = "exists"
    /\ lastOp.raised = NoError
    /\ LastTriple \in DOMAIN written[lastOp.tx]
    /\ written[lastOp.tx][LastTriple].op = "delete"
    /\ PartitionExists(partition, _serialize_key(lastOp.key, lastOp.prefix),
                       lastOp.cf)
    /\ lastOp.ret = "False"
    /\ ~lastOp.read
ByFirst(rec) == rec.by = 1

ByRetry(rec) == rec.by = 2

\* Transaction 1 failed in prepare after producing some but not all of its
\* records and wrote nothing; transaction 2 made the same writes, produced
\* all its records and was flushed to COMPLETE.
RetriedAfterPartialPrepare ==
    /\ status[1] = FAILED
    /\ writes[1] = 0
    /\ Len(SelectSeq(changelog, ByFirst)) >= 1
    /\ Len(SelectSeq(changelog, ByFirst)) < CacheSize(update_cache[1])
    /\ written[2] = written[1]
    /\ status[2] = COMPLETE
    /\ writes[2] = 1
    /\ Len(SelectSeq(changelog, ByRetry)) = CacheSize(update_cache[2])

\* C27: when prepare failed after producing only some of a transaction's
\* records, and a fresh transaction makes the same writes and completes
\* prepare and flush, replaying the changelog gives the state of the store,
\* which is the state the retry's records alone replay to.
C27_RetryAfterPartialPrepareConverges ==
    RetriedAfterPartialPrepare
    => /\ Replay(changelog) = partition.data
       /\ Replay(changelog) = Replay(SelectSeq(changelog, ByRetry))

\* The first transaction produced one of its two records before failing; the
\* retry made the same writes, a delete of "a" and a set of "b".
C27_Witness ==
    /\ RetriedAfterPartialPrepare
    /\ Len(changelog) = 3
    /\ changelog[1].by = 1
    /\ DOMAIN partition.data = {<<"default", <<98>>>>}
\* The changelog holds exactly the entries of t's update cache, in order,
\* each produced by t with its column family, key and value or null.
RecordsMatchCache(t) ==
    LET items == CacheItems(update_cache[t]) IN
    /\ Len(changelog) = Len(items)
    /\ \A j \in 1..Len(items) :
           /\ changelog[j].by = t
           /\ changelog[j].key = items[j].key
           /\ changelog[j].headers[CHANGELOG_CF_MESSAGE_HEADER] = items[j].cf
           /\ changelog[j].value = IF items[j].value = DELETED
                                   THEN NoneValue ELSE items[j].value

\* C28: the write-set is frozen in PREPARED.  No step taken while a
\* transaction is PREPARED changes its update cache, and when the flush that
\* follows writes for a transaction with a changelog producer, the batch it
\* applies to the store is the cache whose entries are exactly the records
\* prepare produced.
C28_WriteSetFrozenInPrepared ==
    [][\A t \in Txs :
          status[t] = PREPARED
          => /\ update_cache'[t] = update_cache[t]
             /\ (changelog_producer[t] /\ FlushWrote /\ lastOp'.tx = t)
                => /\ RecordsMatchCache(t)
                   /\ partition'.data
                        = ApplyBatch(partition.data,
                                     CacheItems(update_cache[t]))]_vars

\* With a producer, prepare produced a tombstone and a value and the flush
\* that followed wrote the same two entries.
C28_Witness ==
    /\ changelog_producer[1]
    /\ lastOp.op = "flush"
    /\ lastOp.wrote
    /\ lastOp.raised = NoError
    /\ Len(changelog) = 2
    /\ \E j \in 1..2 : changelog[j].value = NoneValue
    /\ RecordsMatchCache(1)
    /\ WriteSetInStore(1, partition)
\* C29: the update cache is empty when the transaction is constructed, and
\* it is empty in every state in which the transaction is COMPLETE or FAILED.
C29_CacheDiscardedAtEnd ==
    \A t \in Txs :
        /\ lastOp.op = "__init__" => update_cache[t] = << >>
        /\ status[t] \in {COMPLETE, FAILED} => update_cache[t] = << >>
\* C30: set and delete only buffer.  Every set or delete call, successful,
\* failing or refused, leaves the store's data and offsets unchanged, calls
\* no store write and produces no changelog record; a step that changes the
\* store is a flush, called as such or by a clean scope exit.
C30_SetAndDeleteOnlyBuffer ==
    [][/\ lastOp'.op \in {"set", "delete"}
          => UNCHANGED <<partition, changelog, writes>>
       /\ partition' # partition
          => /\ lastOp'.op \in {"flush", "__exit__"}
             /\ lastOp'.wrote]_vars

\* After a set and a delete of a key the store holds, the store is as the
\* earlier transactions left it and nothing was produced or written.
C30_Witness ==
    /\ lastOp.op = "delete"
    /\ lastOp.raised = NoError
    /\ lastOp.key = "a"
    /\ lastOp.prefix = << >>
    /\ lastOp.cf = "default"
    /\ CacheSize(update_cache[lastOp.tx]) = 2
    /\ status[lastOp.tx] = STARTED
    /\ partition.processed_offset = 9
    /\ partition.changelog_offset = 4
    /\ PartitionGet(partition, <<97>>, UNDEFINED, "default") = <<49>>
    /\ changelog = << >>
    /\ writes[lastOp.tx] = 0
----------------------------------------------------------------------------
(* C31..C37 *)

\* C31: with an empty update cache flush returns before the changelog-offset
\* check.  A flush given a changelog offset, on a transaction with no set and
\* no delete, does not read the store's recorded offset, raises nothing,
\* leaves the store as it was and completes the transaction, also when the
\* offset is below the recorded one.
C31_EmptyFlushSkipsOffsetCheck ==
    [][\A t \in Txs :
          (FlushAccepted(t) /\ update_cache[t] = << >> /\ lastOp'.coff # None)
          => /\ ~lastOp'.read
             /\ ~lastOp'.wrote
             /\ lastOp'.raised = NoError
             /\ status'[t] = COMPLETE
             /\ UNCHANGED <<partition, writes>>]_vars

\* A flush with changelog offset 3 on the store that has recorded offset 4
\* completed a transaction that buffered nothing.
C31_Witness ==
    /\ lastOp.op = "flush"
    /\ lastOp.coff = 3
    /\ partition.changelog_offset = 4
    /\ update_cache[lastOp.tx] = << >>
    /\ written[lastOp.tx] = << >>
    /\ lastOp.raised = NoError
    /\ ~lastOp.read
    /\ status[lastOp.tx] = COMPLETE
\* C32: a clean scope exit on a transaction that is already COMPLETE still
\* attempts the implicit flush, which raises the invalid-transaction-state
\* error out of the exit; the status stays COMPLETE and the store is not
\* written again.
C32_CleanExitOnCompleteRaises ==
    [][\A t \in Txs :
          (status[t] = COMPLETE /\ ExitStep(t, FALSE))
          => /\ lastOp'.raised = StateTransactionError
             /\ flushed'[t]
             /\ status'[t] = COMPLETE
             /\ UNCHANGED <<partition, writes, changelog, update_cache>>]_vars

\* The block flushed explicitly with offsets 10 and 5, the store was written
\* once, and the clean exit that followed raised.
C32_Witness ==
    /\ lastOp.op = "__exit__"
    /\ ~lastOp.exc
    /\ lastOp.raised = StateTransactionError
    /\ status[lastOp.tx] = COMPLETE
    /\ writes[lastOp.tx] = 1
    /\ partition.processed_offset = 10
    /\ partition.changelog_offset = 5
\* The step is a get or exists on transaction t, STARTED before the call,
\* that raised.
ReadRaised(t) ==
    /\ status[t] = STARTED
    /\ lastOp'.tx = t
    /\ lastOp'.op \in {"get", "exists"}
    /\ lastOp'.raised # NoError

\* C33: read failures do not fail the transaction.  When get or exists on a
\* STARTED transaction raises (the key does not serialize, the value does
\* not deserialize, or the store lookup fails), the status is still STARTED
\* and the update cache is unchanged, so the status guard of set, delete,
\* prepare and flush still accepts the transaction.
C33_ReadFailuresKeepStarted ==
    [][\A t \in Txs :
          ReadRaised(t)
          => /\ status'[t] = STARTED
             /\ update_cache' = update_cache
             /\ (validate_transaction_status(t, {STARTED}))'
             /\ (validate_transaction_status(t, {STARTED, PREPARED}))']_vars

\* A get read a stored value that does not deserialize, after a set was
\* buffered; the transaction is still STARTED with its entry.
C33_Witness ==
    /\ lastOp.op = "get"
    /\ lastOp.read
    /\ lastOp.raised = StateSerializationError
    /\ status[lastOp.tx] = STARTED
    /\ CacheSize(update_cache[lastOp.tx]) = 1
\* C34: a set or delete that fails serializing its key or value leaves the
\* update cache exactly as it was before the call: no entry is added or
\* altered and the entries of earlier calls are kept.
C34_FailingWriteKeepsCache ==
    [][(/\ lastOp'.op \in {"set", "delete"}
        /\ lastOp'.raised = StateSerializationError)
       => /\ update_cache' = update_cache
          /\ written' = written]_vars

\* A set of key "a" with a value that does not serialize failed after one
\* entry had been buffered; the entry is still the only one.
C34_Witness ==
    /\ lastOp.op = "set"
    /\ lastOp.key = "a"
    /\ lastOp.value = Unserializable
    /\ lastOp.raised = StateSerializationError
    /\ status[lastOp.tx] = FAILED
    /\ CacheSize(update_cache[lastOp.tx]) = 1
    /\ Cardinality(DOMAIN written[lastOp.tx]) = 1
\* C35: prepare, get and exists never modify buffered or durable state.  A
\* prepare call, successful, failing or refused, leaves the update cache and
\* the store unchanged and only appends to the changelog and changes the
\* status; a get or exists call leaves the update cache, the store, the
\* changelog and the status unchanged.
C35_PrepareAndReadsFrame ==
    [][/\ lastOp'.op = "prepare"
          => /\ UNCHANGED <<update_cache, partition, writes>>
             /\ Len(changelog') >= Len(changelog)
             /\ SubSeq(changelog', 1, Len(changelog)) = changelog
       /\ lastOp'.op \in {"get", "exists"}
          => UNCHANGED <<update_cache, partition, writes, changelog,
                         status>>]_vars

\* A prepare on the used partition failed after producing one of two
\* records: the cache still holds both entries and the store is as it was.
C35_Witness ==
    /\ lastOp.op = "prepare"
    /\ lastOp.raised = ProducerError
    /\ status[lastOp.tx] = FAILED
    /\ Len(changelog) = 1
    /\ CacheSize(update_cache[lastOp.tx]) = 2
    /\ writes[lastOp.tx] = 0
    /\ partition.processed_offset = 9
    /\ partition.changelog_offset = 4
    /\ PartitionGet(partition, <<97>>, UNDEFINED, "default") = <<49>>
\* C36: the implicit flush of a clean scope exit supplies neither a
\* processed offset nor a changelog offset.  It does not read the store's
\* recorded changelog offset and does not raise InvalidChangelogOffset, and
\* with a non-empty update cache it calls the store's write, which on
\* success applies the batch and leaves both recorded offsets as they were.
C36_ImplicitFlushWithoutOffsets ==
    [][\A t \in Txs :
          (status[t] \in {STARTED, PREPARED} /\ ExitStep(t, FALSE))
          => /\ lastOp'.poff = None
             /\ lastOp'.coff = None
             /\ ~lastOp'.read
             /\ lastOp'.raised # InvalidChangelogOffset
             /\ update_cache[t] # << >>
                => /\ lastOp'.wrote
                   /\ lastOp'.raised = NoError
                      => /\ partition'.data
                              = ApplyBatch(partition.data,
                                           CacheItems(update_cache[t]))
                         /\ partition'.processed_offset
                              = partition.processed_offset
                         /\ partition'.changelog_offset
                              = partition.changelog_offset]_vars

\* A clean exit wrote two entries to the used partition; the recorded
\* offsets are still 9 and 4.
C36_Witness ==
    /\ lastOp.op = "__exit__"
    /\ ~lastOp.exc
    /\ lastOp.wrote
    /\ lastOp.raised = NoError
    /\ status[lastOp.tx] = COMPLETE
    /\ CacheSize(update_cache[lastOp.tx]) = 2
    /\ WriteSetInStore(lastOp.tx, partition)
    /\ partition.processed_offset = 9
    /\ partition.changelog_offset = 4
\* The store's key of the triple of the last call
LastStoreKey == <<lastOp.cf, _serialize_key(lastOp.key, lastOp.prefix)>>

\* What a get or exists of the last call's triple answers from the store as
\* it is now
StoreAnswer ==
    IF lastOp.op = "exists"
    THEN IF LastStoreKey \in DOMAIN partition.data THEN "True" ELSE "False"
    ELSE IF LastStoreKey \in DOMAIN partition.data
         THEN loads(partition.data[LastStoreKey])
         ELSE D

\* C37: with two transactions open on one partition and their calls
\* interleaved, a get or exists of a triple the calling transaction has not
\* itself set or deleted reads the store as it is at the call and answers
\* from it: entries the other transaction has only buffered are not seen,
\* and what the other transaction's flush has written is seen, although the
\* store did not hold it when the reading transaction was constructed.
C37_ReadsSeeTheStoreAsItIs ==
    (/\ lastOp.op \in {"get", "exists"}
     /\ lastOp.raised = NoError
     /\ LastTriple \notin DOMAIN written[lastOp.tx])
    => /\ lastOp.read
       /\ lastOp.ret = StoreAnswer

\* Transaction 2, open since the store was empty and with an entry of its
\* own buffered, got "1" for key "a", which it never wrote and which
\* transaction 1's flush had written.
C37_Witness ==
    /\ lastOp.op = "get"
    /\ lastOp.tx = 2
    /\ lastOp.key = "a"
    /\ lastOp.ret = "1"
    /\ status[2] = STARTED
    /\ snapshot[2] = << >>
    /\ DOMAIN written[2] = {<<"b", << >>, "default">>}
    /\ status[1] = COMPLETE
    /\ writes[1] = 1
====
